---- MODULE Spec2Model ----
(***************************************************************************)
(* docs/conf.py of bit-recover: the Sphinx configuration file, modelled as *)
(* the evaluation of its top-level statements, one statement per step.     *)
(* The state is the module namespace the file fills, and the process state *)
(* the file reads or writes: os.environ, the working directory, sys.path   *)
(* and sys.modules.                                                        *)
(***************************************************************************)
EXTENDS Integers, Sequences, FiniteSets, TLC

VARIABLES
    status,     \* "idle" | "running" | "done" | "raised"
    pc,         \* source line of the statement to execute next (last one when stopped)
    exc,        \* name of the exception that ended the evaluation, "" when none
    ns,         \* the module namespace of conf.py: name -> value
    environ,    \* os.environ restricted to the variables the file reads
    cwd,        \* the process's working directory, a string as a sequence of characters
    cwdRemoved, \* TRUE when the working directory no longer exists on disk
    sysPath,    \* sys.path, a list of path strings
    modules,    \* names registered in sys.modules
    before,     \* process state when the running evaluation started
    trace,      \* lines executed by the running evaluation, in execution order
    results,    \* one record per completed evaluation, oldest first
    evals       \* number of evaluations started

vars == <<status, pc, exc, ns, environ, cwd, cwdRemoved, sysPath, modules,
          before, trace, results, evals>>

(* ------------------------------ bounds --------------------------------- *)

\* evaluations of the file per behaviour
MaxEvals == 2

\* values of READTHEDOCS tried when the variable is set
EnvValues == {"True", "TRUE", "true", "false", ""}

\* os.environ: READTHEDOCS unset, or set to one of EnvValues
Environs == {[k \in {} |-> ""]} \cup {[k \in {"READTHEDOCS"} |-> v] : v \in EnvValues}

\* working directories, as os.getcwd() reports them (absolute, normalised)
Cwds == {<<"/">>, <<"/", "a">>}

\* the working directory of an evaluation: its path, and whether the directory
\* has been removed from disk while the process still sits in it
WorkDirs == {[path |-> c, removed |-> FALSE] : c \in Cwds}
            \cup {[path |-> <<"/", "a">>, removed |-> TRUE]}

\* contents of sys.path before the first evaluation
InitialPaths == {<< <<"/", "l">>, <<"/", "a">> >>}

\* contents of sys.modules before the first evaluation (sys is built in)
InitialModules == {{"sys"}, {"sys", "os"}}

(* --------------------------- Python values ----------------------------- *)

PyNone == [type |-> "NoneType"]

PyStr(s) == [type |-> "str", value |-> s]

\* the outcome of evaluating an expression: a value, or a raised exception
Ok(v) == [raised |-> "", value |-> v]

Raise(e) == [raised |-> e, value |-> PyNone]

\* name = value in a namespace
Bind(space, name, value) ==
    [n \in DOMAIN space \cup {name} |-> IF n = name THEN value ELSE space[n]]

EmptyNamespace == [n \in {} |-> PyNone]

(* ------------------------------ posixpath ------------------------------ *)

\* posixpath.isabs: the path starts with a slash
IsAbs(p) == Len(p) > 0 /\ p[1] = "/"

\* posixpath.join(a, b)
PathJoin(a, b) ==
    IF IsAbs(b) THEN b
    ELSE IF a = <<>> \/ a[Len(a)] = "/" THEN a \o b
    ELSE a \o <<"/">> \o b

\* str.split('/'): the components between slashes, empty ones included
RECURSIVE Split(_)
Split(s) ==
    IF \A i \in 1..Len(s) : s[i] # "/" THEN <<s>>
    ELSE LET i == CHOOSE k \in 1..Len(s) :
                      s[k] = "/" /\ \A j \in 1..(k - 1) : s[j] # "/"
         IN <<SubSeq(s, 1, i - 1)>> \o Split(SubSeq(s, i + 1, Len(s)))

\* '/'.join(comps)
RECURSIVE SepJoin(_)
SepJoin(comps) ==
    IF comps = <<>> THEN <<>>
    ELSE IF Len(comps) = 1 THEN comps[1]
    ELSE comps[1] \o <<"/">> \o SepJoin(Tail(comps))

\* the loop of posixpath.normpath over the components, new_comps in acc
RECURSIVE NormComps(_, _, _)
NormComps(comps, acc, initialSlashes) ==
    IF comps = <<>> THEN acc
    ELSE LET comp == Head(comps)
             rest == Tail(comps)
         IN IF comp = <<>> \/ comp = <<".">> THEN NormComps(rest, acc, initialSlashes)
            ELSE IF comp # <<".", ".">>
                    \/ (initialSlashes = 0 /\ acc = <<>>)
                    \/ (acc # <<>> /\ acc[Len(acc)] = <<".", ".">>)
                 THEN NormComps(rest, Append(acc, comp), initialSlashes)
            ELSE IF acc # <<>>
                 THEN NormComps(rest, SubSeq(acc, 1, Len(acc) - 1), initialSlashes)
            ELSE NormComps(rest, acc, initialSlashes)

\* the path left as joined
NormPathSkipped(p) == p

\* posixpath.normpath
NormPath(p) ==
    IF p = <<>> THEN <<".">>
    ELSE LET startsWith(n) == Len(p) >= n /\ \A i \in 1..n : p[i] = "/"
             initialSlashes == IF ~startsWith(1) THEN 0
                               ELSE IF startsWith(2) /\ ~startsWith(3) THEN 2
                               ELSE 1
             joined == SepJoin(NormComps(Split(p), <<>>, initialSlashes))
             path == [i \in 1..initialSlashes |-> "/"] \o joined
         IN IF path = <<>> THEN <<".">> ELSE path

\* os.getcwd(): fails when the working directory has been removed
Getcwd == IF cwdRemoved THEN Raise("FileNotFoundError") ELSE Ok(cwd)

\* os.path.abspath(path)
AbsPath(path) ==
    IF IsAbs(path) THEN Ok(NormPath(path))
    ELSE LET g == Getcwd
         IN IF g.raised # "" THEN g ELSE Ok(NormPath(PathJoin(g.value, path)))

\* the list replaced by [x]
ListOnly(list, i, x) == <<x>>

\* list.insert(i, x) for 0 <= i <= len(list)
ListInsert(list, i, x) == SubSeq(list, 1, i) \o <<x>> \o SubSeq(list, i + 1, Len(list))

\* os.environ[key], which raises when the key is missing
EnvironIndex(env, key, default) ==
    IF key \in DOMAIN env THEN Ok(PyStr(env[key])) ELSE Raise("KeyError")

\* os.environ.get(key, default)
EnvironGet(env, key, default) ==
    IF key \in DOMAIN env THEN Ok(PyStr(env[key])) ELSE Ok(default)

(* ----------------------------- statements ------------------------------ *)

\* the top-level statements of conf.py by source line, in file order
Lines == <<3, 4, 6, 8, 19, 20, 21, 22, 23, 24, 25, 26, 27, 28, 29, 30,
           34, 35, 36, 38, 39, 41, 42, 43, 44, 45, 46, 47, 48,
           52, 57, 64, 71, 79, 80, 81, 82, 83, 84, 85, 86>>

FirstLine == Lines[1]

LastLine == Lines[Len(Lines)]

\* line 19 with the path made absolute: [os.path.abspath('_templates')]
TemplatesPathAbs == <<PathJoin(cwd, <<"_", "t">>)>>

\* line 19, the value of templates_path
TemplatesPath == <<"_templates">>

\* line 39 with the list filled in only off Read the Docs
HtmlThemePathOffRtd == IF ns["on_rtd"] THEN <<>> ELSE <<"_themes">>

\* line 39, the value of html_theme_path
HtmlThemePath == <<"_themes">>

\* the assignments of a literal: source line -> target name and value
Literal(line) ==
    CASE line = 8 -> [target |-> "extensions",
                      value |-> <<"sphinx.ext.autodoc", "sphinx.ext.doctest",
                                  "sphinxcontrib.napoleon", "sphinx.ext.todo",
                                  "sphinx.ext.coverage", "sphinx.ext.mathjax",
                                  "sphinx.ext.ifconfig", "sphinx.ext.viewcode">>]
      [] line = 19 -> [target |-> "templates_path", value |-> TemplatesPath]
      [] line = 20 -> [target |-> "source_suffix", value |-> ".rst"]
      [] line = 21 -> [target |-> "master_doc", value |-> "index"]
      [] line = 22 -> [target |-> "project", value |-> "Bit Recovery"]
      [] line = 23 -> [target |-> "copyright", value |-> "2013, Dirk Roorda"]
      [] line = 24 -> [target |-> "version", value |-> "1.2"]
      [] line = 25 -> [target |-> "release", value |-> "1.2.1"]
      [] line = 26 -> [target |-> "exclude_patterns", value |-> <<"_build">>]
      [] line = 27 -> [target |-> "add_function_parentheses", value |-> TRUE]
      [] line = 28 -> [target |-> "add_module_names", value |-> FALSE]
      [] line = 29 -> [target |-> "pygments_style", value |-> "sphinx"]
      [] line = 30 -> [target |-> "autoclass_content", value |-> "both"]
      [] line = 36 -> [target |-> "html_theme", value |-> "default"]
      [] line = 38 -> [target |-> "html_theme", value |-> "sphinx_rtd_theme"]
      [] line = 39 -> [target |-> "html_theme_path", value |-> HtmlThemePath]
      [] line = 41 -> [target |-> "html_static_path", value |-> <<"_static">>]
      [] line = 42 -> [target |-> "html_domain_indices", value |-> TRUE]
      [] line = 43 -> [target |-> "html_use_index", value |-> TRUE]
      [] line = 44 -> [target |-> "html_split_index", value |-> FALSE]
      [] line = 45 -> [target |-> "html_show_sourcelink", value |-> TRUE]
      [] line = 46 -> [target |-> "html_show_sphinx", value |-> TRUE]
      [] line = 47 -> [target |-> "html_show_copyright", value |-> TRUE]
      [] line = 48 -> [target |-> "htmlhelp_basename", value |-> "Bit Recovery"]
      [] line = 52 -> [target |-> "latex_elements",
                       value |-> [papersize |-> "a4paper", pointsize |-> "10pt"]]
      [] line = 57 -> [target |-> "latex_documents",
                       value |-> << <<"index", "Bit Recovery.tex",
                                      "Bit Recovery Documentation",
                                      "Dirk Roorda", "manual">> >>]
      [] line = 64 -> [target |-> "man_pages",
                       value |-> << <<"index", "Bit Recovery",
                                      "Bit Recovery Documentation",
                                      <<"Dirk Roorda">>, 1>> >>]
      [] line = 71 -> [target |-> "texinfo_documents",
                       value |-> << <<"index", "Bit Recovery",
                                      "Bit Recovery Documentation",
                                      "Dirk Roorda", "Bit Recovery",
                                      "One line description of project.",
                                      "Miscellaneous">> >>]
      [] line = 79 -> [target |-> "epub_title", value |-> "Bit Recovery"]
      [] line = 80 -> [target |-> "epub_author", value |-> "Dirk Roorda"]
      [] line = 81 -> [target |-> "epub_publisher", value |-> "Dirk Roorda"]
      [] line = 82 -> [target |-> "epub_copyright", value |-> "2013, Dirk Roorda"]
      [] line = 83 -> [target |-> "epub_basename", value |-> "Bit Recovery"]
      [] line = 84 -> [target |-> "epub_theme", value |-> "epub"]
      [] line = 85 -> [target |-> "epub_show_urls", value |-> "footnote"]
      [] line = 86 -> [target |-> "epub_use_index", value |-> TRUE]

\* the lines that assign a literal
LiteralLines == {Lines[i] : i \in 1..Len(Lines)} \ {3, 4, 6, 34, 35}

\* every name conf.py binds
AllNames == {"sys", "os", "on_rtd"} \cup {Literal(l).target : l \in LiteralLines}

\* the next statement in file order, the else-suite not skipped
FollowingInFileOrder(line) ==
    LET i == CHOOSE k \in 1..Len(Lines) : Lines[k] = line
    IN Lines[i + 1]

\* the statement that follows a statement which is not the branch: the next
\* one in file order, except that the end of the if-suite skips the else-suite
Following(line) ==
    IF line = 36 THEN 39
    ELSE LET i == CHOOSE k \in 1..Len(Lines) : Lines[k] = line
         IN Lines[i + 1]

\* the comparison of line 34 made without regard to case
OnRtdAnyCase(v) == v \in {PyStr("True"), PyStr("TRUE"), PyStr("true")}

\* line 34: <lookup> == 'True'
OnRtd(v) == v = PyStr("True")

\* line 35, if on_rtd: the suite the condition selects
BranchTarget(cond) == IF cond THEN 36 ELSE 38

ModuleObject(name) == [type |-> "module", name |-> name]

\* the process state an evaluation can read or write outside its namespace
ProcessState ==
    [environ |-> environ, cwd |-> cwd, cwdRemoved |-> cwdRemoved,
     sysPath |-> sysPath, modules |-> modules]

(* ------------------------------- actions ------------------------------- *)

Init ==
    /\ status = "idle"
    /\ pc = FirstLine
    /\ exc = ""
    /\ ns = EmptyNamespace
    /\ environ = [k \in {} |-> ""]
    /\ cwd = <<"/">>
    /\ cwdRemoved = FALSE
    /\ sysPath \in InitialPaths
    /\ modules \in InitialModules
    /\ before = ProcessState
    /\ trace = <<>>
    /\ results = <<>>
    /\ evals = 0

\* the statement at pc has run and control moves to line `next`
Advance(next) ==
    /\ trace' = Append(trace, pc)
    /\ pc' = next
    /\ UNCHANGED <<status, exc, before, results, evals>>

\* the statement at pc raised e: the evaluation stops there
Abort(e) ==
    /\ status' = "raised"
    /\ exc' = e
    /\ trace' = Append(trace, pc)
    /\ UNCHANGED <<pc, before, results, evals>>

\* the host (sphinx-build) starts evaluating the file in a fresh namespace;
\* between evaluations it may have changed READTHEDOCS and its directory
Evaluate(e, w) ==
    /\ status # "running"
    /\ evals < MaxEvals
    /\ environ' = e
    /\ cwd' = w.path
    /\ cwdRemoved' = w.removed
    /\ status' = "running"
    /\ pc' = FirstLine
    /\ exc' = ""
    /\ ns' = EmptyNamespace
    /\ trace' = <<>>
    /\ evals' = evals + 1
    /\ UNCHANGED <<sysPath, modules, results>>
    /\ before' = ProcessState'

\* lines 3 and 4: import sys, import os
Import(line, name) ==
    /\ status = "running"
    /\ pc = line
    /\ modules' = modules \cup {name}
    /\ ns' = Bind(ns, name, ModuleObject(name))
    /\ Advance(Following(line))
    /\ UNCHANGED <<environ, cwd, cwdRemoved, sysPath>>

\* line 6: sys.path.insert(0, os.path.abspath(''))
SysPathInsert ==
    /\ status = "running"
    /\ pc = 6
    /\ LET r == AbsPath(<<>>)
       IN IF r.raised = ""
          THEN /\ sysPath' = ListInsert(sysPath, 0, r.value)
               /\ Advance(Following(6))
          ELSE /\ Abort(r.raised)
               /\ UNCHANGED sysPath
    /\ UNCHANGED <<ns, environ, cwd, cwdRemoved, modules>>

\* line 34: on_rtd = os.environ.get('READTHEDOCS', None) == 'True'
ReadEnv ==
    /\ status = "running"
    /\ pc = 34
    /\ LET r == EnvironGet(environ, "READTHEDOCS", PyNone)
       IN IF r.raised = ""
          THEN /\ ns' = Bind(ns, "on_rtd", OnRtd(r.value))
               /\ Advance(Following(34))
          ELSE /\ Abort(r.raised)
               /\ UNCHANGED ns
    /\ UNCHANGED <<environ, cwd, cwdRemoved, sysPath, modules>>

\* line 35: if on_rtd: ... else: ...
Branch ==
    /\ status = "running"
    /\ pc = 35
    /\ Advance(BranchTarget(ns["on_rtd"]))
    /\ UNCHANGED <<ns, environ, cwd, cwdRemoved, sysPath, modules>>

\* every other line but the last: name = literal
Assign ==
    /\ status = "running"
    /\ pc \in LiteralLines \ {LastLine}
    /\ ns' = Bind(ns, Literal(pc).target, Literal(pc).value)
    /\ Advance(Following(pc))
    /\ UNCHANGED <<environ, cwd, cwdRemoved, sysPath, modules>>

\* line 86, the last assignment: the evaluation completes
AssignLast ==
    /\ status = "running"
    /\ pc = LastLine
    /\ ns' = Bind(ns, Literal(pc).target, Literal(pc).value)
    /\ status' = "done"
    /\ trace' = Append(trace, pc)
    /\ results' = Append(results, [before |-> before, ns |-> ns',
                                   after |-> ProcessState])
    /\ UNCHANGED <<pc, exc, before, evals, environ, cwd, cwdRemoved, sysPath, modules>>

\* one statement of the running evaluation
Step ==
    \/ Import(3, "sys")
    \/ Import(4, "os")
    \/ SysPathInsert
    \/ ReadEnv
    \/ Branch
    \/ Assign
    \/ AssignLast

Next ==
    \/ \E e \in Environs, w \in WorkDirs : Evaluate(e, w)
    \/ Step

Spec == Init /\ [][Next]_vars

\* the interpreter runs the next statement of an evaluation it has started
FairSpec == Spec /\ WF_vars(Step)

(* ------------------------------ properties ----------------------------- *)

Unset == [k \in {} |-> ""]

SetTo(v) == [k \in {"READTHEDOCS"} |-> v]

\* the theme the documentation promises for a value of os.environ
ExpectedTheme(env) ==
    IF "READTHEDOCS" \in DOMAIN env /\ env["READTHEDOCS"] = "True"
    THEN "default"
    ELSE "sphinx_rtd_theme"

\* the names whose value may depend on READTHEDOCS
ThemeNames == {"html_theme", "on_rtd"}

\* C1: after every completed evaluation html_theme is "default" when
\* READTHEDOCS is exactly "True" and "sphinx_rtd_theme" for every other value
\* of the variable ("TRUE", "true", "false", "") and when it is unset.
C1_ThemeSelection ==
    \A i \in DOMAIN results :
        results[i].ns["html_theme"] = ExpectedTheme(results[i].before.environ)

\* an evaluation under "True" chose default, a later one under "TRUE" did not
C1_Witness ==
    /\ Len(results) = 2
    /\ results[1].before.environ = SetTo("True")
    /\ results[1].ns["html_theme"] = "default"
    /\ results[2].before.environ = SetTo("TRUE")
    /\ results[2].ns["html_theme"] = "sphinx_rtd_theme"

\* C2 as stated: no evaluation ever raises, whatever READTHEDOCS is, and a
\* completed evaluation has bound every name of the file.
C2_NoFailurePath ==
    /\ status # "raised"
    /\ status = "done" => DOMAIN ns = AllNames

\* C2 amended: the lookup and comparison of READTHEDOCS never raise; the one
\* failure is line 6, where os.path.abspath('') raises FileNotFoundError when
\* the working directory has been removed, and nothing but sys and os is
\* bound then. An evaluation that completes has bound every name of the file.
C2_OnlyGetcwdFails ==
    /\ status = "raised" =>
           /\ pc = 6
           /\ exc = "FileNotFoundError"
           /\ cwdRemoved
           /\ DOMAIN ns = {"sys", "os"}
    /\ status = "done" => DOMAIN ns = AllNames
    /\ \A i \in DOMAIN results : DOMAIN results[i].ns = AllNames

\* READTHEDOCS unset: one evaluation completed, the next one raised at line 6
C2_Witness ==
    /\ status = "raised"
    /\ environ = Unset
    /\ Len(results) = 1
    /\ results[1].before.environ = Unset
    /\ results[1].ns["html_theme"] = "sphinx_rtd_theme"

\* C3 as stated: two completed evaluations under the same READTHEDOCS end in
\* the same state, namespace and everything else the file writes (sys.path,
\* sys.modules), whatever the working directory and the prior sys.path were.
C3_SameStateForSameEnv ==
    \A i, j \in DOMAIN results :
        results[i].before.environ = results[j].before.environ =>
            /\ results[i].ns = results[j].ns
            /\ results[i].after.sysPath = results[j].after.sysPath
            /\ results[i].after.modules = results[j].after.modules

\* C3 amended: two completed evaluations under the same READTHEDOCS end with
\* the same namespace; sys.path afterwards is not determined by READTHEDOCS:
\* its first entry is the working directory of that evaluation and the rest
\* is the prior sys.path.
C3_NamespaceForSameEnv ==
    /\ \A i, j \in DOMAIN results :
           results[i].before.environ = results[j].before.environ =>
               results[i].ns = results[j].ns
    /\ \A i \in DOMAIN results :
           /\ Head(results[i].after.sysPath) = results[i].before.cwd
           /\ Tail(results[i].after.sysPath) = results[i].before.sysPath

\* two evaluations under the same READTHEDOCS in different directories
C3_Witness ==
    /\ Len(results) = 2
    /\ results[1].before.environ = results[2].before.environ
    /\ results[1].before.cwd # results[2].before.cwd
    /\ results[1].ns = results[2].ns
    /\ results[1].after.sysPath # results[2].after.sysPath

\* C4 as stated: a completed evaluation leaves the process state outside the
\* namespace (os.environ, the working directory, sys.path, sys.modules) as
\* it found it.
C4_NoStateOutsideNamespace ==
    \A i \in DOMAIN results : results[i].after = results[i].before

\* C4 amended: an evaluation leaves os.environ and the working directory as
\* it found them, but not sys.path, to which it prepends one entry, nor
\* sys.modules, where the two imports register sys and os.
C4_FrameBesidesSysPath ==
    /\ status # "idle" =>
           /\ environ = before.environ
           /\ cwd = before.cwd
           /\ cwdRemoved = before.cwdRemoved
           /\ before.modules \subseteq modules
           /\ modules \subseteq before.modules \cup {"sys", "os"}
           /\ \/ sysPath = before.sysPath
              \/ Len(sysPath) > 0 /\ Tail(sysPath) = before.sysPath
    /\ \A i \in DOMAIN results :
           /\ results[i].after.environ = results[i].before.environ
           /\ results[i].after.cwd = results[i].before.cwd
           /\ results[i].after.modules = results[i].before.modules \cup {"sys", "os"}
           /\ Len(results[i].after.sysPath) = Len(results[i].before.sysPath) + 1
           /\ Tail(results[i].after.sysPath) = results[i].before.sysPath

\* a completed evaluation that found a non-empty sys.path and os not loaded
C4_Witness ==
    /\ status = "done"
    /\ before.sysPath # <<>>
    /\ sysPath # before.sysPath
    /\ "os" \notin before.modules
    /\ environ = before.environ

\* C5: any two completed evaluations, whatever READTHEDOCS was in each, bind
\* the same names, and every name other than html_theme and on_rtd to the
\* same value.
C5_OnlyThemeDependsOnEnv ==
    \A i, j \in DOMAIN results :
        /\ DOMAIN results[i].ns = DOMAIN results[j].ns
        /\ \A n \in DOMAIN results[i].ns \ ThemeNames :
               results[i].ns[n] = results[j].ns[n]

\* two evaluations whose READTHEDOCS differ, and html_theme and on_rtd with it
C5_Witness ==
    /\ Len(results) = 2
    /\ results[1].before.environ = SetTo("True")
    /\ results[2].before.environ = Unset
    /\ results[1].ns["html_theme"] # results[2].ns["html_theme"]
    /\ results[1].ns["on_rtd"] # results[2].ns["on_rtd"]
    /\ results[1].ns["html_theme_path"] = results[2].ns["html_theme_path"]

\* the lines of t are in file order, none twice
InFileOrder(t) == \A i \in 1..(Len(t) - 1) : t[i] < t[i + 1]

\* how many of the two html_theme assignments t holds
ThemeAssignments(t) == Cardinality({i \in DOMAIN t : t[i] \in {36, 38}})

\* C6 as stated, in the form a finite run refutes: the statements run in
\* file order, each at most once, and an evaluation that has stopped has run
\* exactly one html_theme assignment and the final statement.
C6_AlwaysReachesLastLine ==
    /\ InFileOrder(trace)
    /\ status \in {"done", "raised"} =>
           /\ ThemeAssignments(trace) = 1
           /\ trace[Len(trace)] = LastLine

\* C6 amended: the statements run in file order, each at most once, and the
\* evaluation always stops: with the working directory in place it runs
\* exactly one html_theme assignment and reaches the final statement; with
\* the directory removed it stops at line 6, no html_theme assignment run.
C6_SinglePass ==
    /\ [](/\ InFileOrder(trace)
          /\ status = "done" =>
                 /\ ThemeAssignments(trace) = 1
                 /\ trace[Len(trace)] = LastLine
          /\ status = "raised" =>
                 /\ ThemeAssignments(trace) = 0
                 /\ trace[Len(trace)] = 6)
    /\ (status = "running") ~> (status = IF cwdRemoved THEN "raised" ELSE "done")

\* a completed evaluation that took the else-suite, after one that raised
C6_Witness ==
    /\ status = "done"
    /\ evals = 2
    /\ Len(results) = 1
    /\ 38 \in {trace[i] : i \in DOMAIN trace}
    /\ 36 \notin {trace[i] : i \in DOMAIN trace}

====
